---- MODULE Spec2Model ----
(***************************************************************************)
(* docs/user_guide/vectorizers_04.ipynb run top to bottom: the notebook's   *)
(* code cells are the actions, its globals are the namespace `ns`, and the  *)
(* Redis server and the process environment are the state it acts on.       *)
(***************************************************************************)
EXTENDS FiniteSets, Integers, Sequences, TLC

VARIABLES
    pc,        \* the statement the kernel runs next
    env,       \* os.environ
    ns,        \* the notebook's global names, name -> value
    log,       \* every external event so far, in order
    inflight,  \* coroutines started and not yet completed
    server     \* the Redis server: its search indices and its hashes

vars == <<pc, env, ns, log, inflight, server>>

----------------------------------------------------------------------------
(* Bounds *)

\* how many of the variables the notebook reads may be missing (absent or empty)
MaxUnset == 1
\* the largest vector distance the server may report
MaxDist == 1

----------------------------------------------------------------------------
(* Values *)

\* os.environ.get(X) of a variable that is not set
None == "<None>"

EnvNames == {"OPENAI_API_KEY", "AZURE_OPENAI_API_KEY", "OPENAI_API_VERSION",
             "AZURE_OPENAI_ENDPOINT", "AZURE_OPENAI_DEPLOYMENT_NAME",
             "GCP_PROJECT_ID", "GCP_LOCATION", "GOOGLE_APPLICATION_CREDENTIALS",
             "COHERE_API_KEY"}

\* the value a variable has when the user exported it
Exported(name) == "env:" \o name

\* what the user may type at a getpass prompt
Typed == {"", "typed"}

\* Python truthiness of the strings and None that os.environ.get returns
Truthy(v) == v # None /\ v # ""

OPENAI_DIMS == 1536
AZURE_DIMS == 1536
COHERE_DIMS == 1024
HF_DIMS == 768
SCHEMA_DIMS == 768

\* the three sentences the "Creating Text Embeddings" section announces
Announced == <<"That is a happy dog", "That is a happy person", "Today is a nice day">>

\* the list both code cells assign to `sentences`
SentenceList == <<"That is a happy dog", "That is a happy person", "Today is a sunny day">>

\* ./schema.yaml as the notebook shows it
SchemaYaml ==
    [name |-> "vectorizers", prefix |-> "doc", storage_type |-> "hash",
     fields |-> <<[name |-> "sentence", type |-> "text", dims |-> 0],
                  [name |-> "embedding", type |-> "vector", dims |-> SCHEMA_DIMS]>>]

SchemaFieldNames(schema) == {schema.fields[i].name : i \in 1..Len(schema.fields)}

----------------------------------------------------------------------------
(* Events *)

Event(op, obj, val, vecs) == [op |-> op, obj |-> obj, val |-> val, vecs |-> vecs]

\* name = value in the notebook's globals
Bind(space, name, value) == (name :> value) @@ space

Range(s) == {s[i] : i \in 1..Len(s)}

----------------------------------------------------------------------------
(* Credentials *)

\* getpass.getpass(...) or os.environ.get(name): the operands the wrong way
\* round, so that the prompt comes first whatever the environment holds
GetpassOrEnvGet(name) ==
    {[value |-> IF t # "" THEN t ELSE env[name],
      events |-> <<Event("getpass", name, t, <<>>),
                   Event("environ.get", name, env[name], <<>>)>>] : t \in Typed}

\* os.environ.get(name) or getpass.getpass(...): the outcomes, each the value
\* the expression yields and the events it causes
EnvGetOrGetpass(name) ==
    IF Truthy(env[name])
    THEN {[value |-> env[name],
           events |-> <<Event("environ.get", name, env[name], <<>>)>>]}
    ELSE {[value |-> t,
           events |-> <<Event("environ.get", name, env[name], <<>>),
                        Event("getpass", name, t, <<>>)>>] : t \in Typed}

\* os.environ.get(name) or default: an empty value gives way to the default too
EnvGetOrDefault(name, default) == IF Truthy(env[name]) THEN env[name] ELSE default

\* os.environ.get(name, default)
EnvGetDefault(name, default) == IF env[name] = None THEN default ELSE env[name]

----------------------------------------------------------------------------
(* The vectorizers of redisvl.utils.vectorize *)

\* the length of the vectors a vectorizer of this class yields; VertexAI's
\* is not shown anywhere in the notebook
Dims(class) ==
    CASE class = "OpenAITextVectorizer" -> {OPENAI_DIMS}
      [] class = "AzureOpenAITextVectorizer" -> {AZURE_DIMS}
      [] class = "HFTextVectorizer" -> {HF_DIMS}
      [] class = "CohereTextVectorizer" -> {COHERE_DIMS}
      [] class = "VertexAITextVectorizer" -> {HF_DIMS, COHERE_DIMS, OPENAI_DIMS}

\* Class(model=..., api_config=...): the vectorizer objects it may build
Vectorizer(class, model, api_config) ==
    {[class |-> class, model |-> model, api_config |-> api_config, dims |-> d]
        : d \in Dims(class)}

\* vectorizer.embed(text, as_buffer=...)
Embed(vectorizer, text, as_buffer) ==
    [provider |-> vectorizer.class, dims |-> vectorizer.dims,
     fmt |-> IF as_buffer THEN "bytes" ELSE "floats", text |-> text]

\* vectorizer.embed_many(texts, as_buffer=...) and aembed_many: one vector
\* per text, in the order of the texts
EmbedMany(vectorizer, texts, as_buffer) ==
    [i \in 1..Len(texts) |-> Embed(vectorizer, texts[i], as_buffer)]

\* zip(a, b): pairs up to the shorter of the two
Min(a, b) == IF a <= b THEN a ELSE b
\* a zip that pairs each element with the one after its partner
ZipShifted(a, b) == [i \in 1..(Min(Len(a), Len(b)) - 1) |-> <<a[i], b[i + 1]>>]
Zip(a, b) == [i \in 1..Min(Len(a), Len(b)) |-> <<a[i], b[i]>>]

----------------------------------------------------------------------------
(* SearchIndex and VectorQuery of redisvl, and the Redis server behind them *)

\* SearchIndex.from_yaml(path)
FromYaml(schema) == [schema |-> schema, connected |-> FALSE]

\* index.connect(url)
Connect(index) == [index EXCEPT !.connected = TRUE]

Exists(srv, index) == index.schema.name \in srv.indices

\* what the server answers when asked whether it has the index
State(srv, index) == IF Exists(srv, index) THEN "exists" ELSE "missing"

\* the hashes of srv that are not under the index's key prefix
OtherHashes(srv, index) ==
    SelectSeq(srv.hashes, LAMBDA h : h.prefix # index.schema.prefix)

\* index.create(overwrite): an earlier index of the same name is kept as it
\* is unless overwrite is set, and then it is dropped with its documents
Create(srv, index, overwrite) ==
    IF ~Exists(srv, index)
    THEN [srv EXCEPT !.indices = @ \cup {index.schema.name}]
    ELSE IF ~overwrite
    THEN srv
    ELSE [indices |-> srv.indices, hashes |-> OtherHashes(srv, index)]

\* index.load(data): one hash per record, under the index's key prefix
Load(srv, index, data) ==
    [srv EXCEPT !.hashes =
        @ \o [i \in 1..Len(data) |-> [prefix |-> index.schema.prefix, fields |-> data[i]]]]

\* index.delete(): the index and its documents are dropped
Delete(srv, index) ==
    [indices |-> srv.indices \ {index.schema.name},
     hashes |-> OtherHashes(srv, index)]

\* VectorQuery(vector, vector_field_name, return_fields, num_results)
VectorQuery(vector, vector_field_name, return_fields, num_results) ==
    [vector |-> vector, vector_field_name |-> vector_field_name,
     return_fields |-> return_fields, num_results |-> num_results]

\* the positions in srv.hashes of the documents the index holds: the hashes
\* under its prefix that carry the queried vector field
Candidates(srv, index, query) ==
    {i \in 1..Len(srv.hashes) :
        /\ srv.hashes[i].prefix = index.schema.prefix
        /\ query.vector_field_name \in DOMAIN srv.hashes[i].fields}

\* the candidates in the order of their distance, ties in load order
RECURSIVE Nearest(_, _)
Nearest(cands, dist) ==
    IF cands = {} THEN <<>>
    ELSE LET best == CHOOSE i \in cands :
                        \A j \in cands : dist[i] < dist[j] \/ (dist[i] = dist[j] /\ i <= j)
         IN <<best>> \o Nearest(cands \ {best}, dist)

\* one returned document: the requested fields the hash has, and its distance
Doc(hash, query, d) ==
    [f \in {g \in Range(query.return_fields) : g \in DOMAIN hash.fields}
                \cup {"vector_distance"}
        |-> IF f = "vector_distance" THEN d ELSE hash.fields[f]]

\* index.query(query), dist being the distance the server computes between
\* the query vector and each hash
Query(srv, index, query, dist) ==
    LET order == Nearest(Candidates(srv, index, query), dist)
        n == Min(query.num_results, Len(order))
    IN [k \in 1..n |-> Doc(srv.hashes[order[k]], query, dist[order[k]])]

----------------------------------------------------------------------------
(* Initial state *)

\* a document an earlier run of the notebook left on the server
StaleHash ==
    [prefix |-> "doc",
     fields |-> [text |-> "left by an earlier run",
                 embedding |-> [provider |-> "HFTextVectorizer", dims |-> HF_DIMS,
                                fmt |-> "bytes", text |-> "left by an earlier run"]]]

\* the environments in which the variables of `missing` are absent or empty
\* and every other variable is exported
Environments(missing) ==
    {[n \in EnvNames \cup {"TOKENIZERS_PARALLELISM"} |->
        IF n \in missing THEN m[n]
        ELSE IF n \in EnvNames THEN Exported(n) ELSE None]
        : m \in [missing -> {None, ""}]}

Init ==
    /\ pc = "import_os"
    /\ \E missing \in {u \in SUBSET EnvNames : Cardinality(u) <= MaxUnset} :
        env \in Environments(missing)
    /\ ns = <<>>
    /\ log = <<>>
    /\ inflight = {}
    /\ server \in {[indices |-> {}, hashes |-> <<>>],
                   [indices |-> {"vectorizers"}, hashes |-> <<>>],
                   [indices |-> {"vectorizers"}, hashes |-> <<StaleHash>>]}

----------------------------------------------------------------------------
(* The code cells, in the order of the notebook *)

\* import os
ImportOs ==
    /\ pc = "import_os"
    /\ pc' = "openai_key"
    /\ UNCHANGED <<env, ns, log, inflight, server>>

\* api_key = os.environ.get("OPENAI_API_KEY") or getpass.getpass(...)
OpenAIKey ==
    /\ pc = "openai_key"
    /\ \E k \in EnvGetOrGetpass("OPENAI_API_KEY") :
        /\ ns' = Bind(ns, "api_key", k.value)
        /\ log' = log \o k.events
    /\ pc' = "openai_cell"
    /\ UNCHANGED <<env, inflight, server>>

\* oai = OpenAITextVectorizer(...); test = oai.embed("This is a test sentence.")
OpenAICell ==
    /\ pc = "openai_cell"
    /\ \E oai \in Vectorizer("OpenAITextVectorizer", "text-embedding-ada-002",
                             [api_key |-> ns.api_key]) :
        LET test == Embed(oai, "This is a test sentence.", FALSE)
        IN /\ ns' = Bind(Bind(ns, "oai", oai), "test", test)
           /\ log' = log \o <<Event("init", "oai", oai.class, <<>>),
                              Event("embed", "oai", test.text, <<test>>)>>
    /\ pc' = "oai_embed_many"
    /\ UNCHANGED <<env, inflight, server>>

\* sentences = [...]; embeddings = oai.embed_many(sentences)
OaiEmbedMany ==
    /\ pc = "oai_embed_many"
    /\ LET sentences == SentenceList
           embeddings == EmbedMany(ns.oai, sentences, FALSE)
       IN /\ ns' = Bind(Bind(ns, "sentences", sentences), "embeddings", embeddings)
          /\ log' = Append(log, Event("embed_many", "oai", "", embeddings))
    /\ pc' = "oai_aembed_many"
    /\ UNCHANGED <<env, inflight, server>>

\* embeddings = oai.aembed_many(sentences) without the await: the coroutine
\* is left behind and the kernel goes on to the next cell
OaiAembedManyNotAwaited ==
    /\ pc = "oai_aembed_many"
    /\ inflight' = inflight \cup {[obj |-> "oai", texts |-> ns.sentences]}
    /\ pc' = "azure_setup"
    /\ UNCHANGED <<env, ns, log, server>>

\* embeddings = await oai.aembed_many(sentences): the coroutine is started
\* and the cell waits for it
OaiAembedManyCall ==
    /\ pc = "oai_aembed_many"
    /\ inflight' = inflight \cup {[obj |-> "oai", texts |-> ns.sentences]}
    /\ pc' = "oai_aembed_many_await"
    /\ UNCHANGED <<env, ns, log, server>>

\* the coroutine completes, its result is bound, and the cell goes on to
\* print("Number of Embeddings:", len(embeddings))
OaiAembedManyDone ==
    /\ pc = "oai_aembed_many_await"
    /\ \E c \in inflight :
        /\ c.obj = "oai"
        /\ LET embeddings == EmbedMany(ns.oai, c.texts, FALSE)
           IN /\ ns' = Bind(ns, "embeddings", embeddings)
              /\ log' = log \o <<Event("aembed_many", "oai", "", embeddings),
                                 Event("print", "len(embeddings)", "", embeddings)>>
        /\ inflight' = inflight \ {c}
    /\ pc' = "azure_setup"
    /\ UNCHANGED <<env, server>>

\* api_key, api_version, azure_endpoint = ... or getpass.getpass(...);
\* deployment_name = os.environ.get("AZURE_OPENAI_DEPLOYMENT_NAME", default)
AzureSetup ==
    /\ pc = "azure_setup"
    /\ \E k \in EnvGetOrGetpass("AZURE_OPENAI_API_KEY"),
          v \in EnvGetOrGetpass("OPENAI_API_VERSION"),
          e \in EnvGetOrGetpass("AZURE_OPENAI_ENDPOINT") :
        LET deployment_name ==
                EnvGetDefault("AZURE_OPENAI_DEPLOYMENT_NAME", "text-embedding-ada-002")
        IN /\ ns' = Bind(Bind(Bind(Bind(ns, "api_key", k.value),
                                        "api_version", v.value),
                                   "azure_endpoint", e.value),
                              "deployment_name", deployment_name)
           /\ log' = log \o k.events \o v.events \o e.events
                         \o <<Event("environ.get", "AZURE_OPENAI_DEPLOYMENT_NAME",
                                    deployment_name, <<>>)>>
    /\ pc' = "azure_cell"
    /\ UNCHANGED <<env, inflight, server>>

\* az_oai = AzureOpenAITextVectorizer(...); test = az_oai.embed(...)
AzureCell ==
    /\ pc = "azure_cell"
    /\ \E az_oai \in Vectorizer("AzureOpenAITextVectorizer", ns.deployment_name,
                                [api_key |-> ns.api_key,
                                 api_version |-> ns.api_version,
                                 azure_endpoint |-> ns.azure_endpoint]) :
        LET test == Embed(az_oai, "This is a test sentence.", FALSE)
        IN /\ ns' = Bind(Bind(ns, "az_oai", az_oai), "test", test)
           /\ log' = log \o <<Event("init", "az_oai", az_oai.class, <<>>),
                              Event("embed", "az_oai", test.text, <<test>>)>>
    /\ pc' = "az_aembed_many"
    /\ UNCHANGED <<env, inflight, server>>

\* sentences = [...]; embeddings = await az_oai.aembed_many(sentences): the
\* coroutine is started and the cell waits for it
AzAembedManyCall ==
    /\ pc = "az_aembed_many"
    /\ ns' = Bind(ns, "sentences", SentenceList)
    /\ inflight' = inflight \cup {[obj |-> "az_oai", texts |-> SentenceList]}
    /\ pc' = "az_aembed_many_await"
    /\ UNCHANGED <<env, log, server>>

\* the coroutine completes and its result is bound
AzAembedManyDone ==
    /\ pc = "az_aembed_many_await"
    /\ \E c \in inflight :
        /\ c.obj = "az_oai"
        /\ LET embeddings == EmbedMany(ns.az_oai, c.texts, FALSE)
           IN /\ ns' = Bind(ns, "embeddings", embeddings)
              /\ log' = Append(log, Event("aembed_many", "az_oai", "", embeddings))
        /\ inflight' = inflight \ {c}
    /\ pc' = "hf_cell"
    /\ UNCHANGED <<env, server>>

\* os.environ["TOKENIZERS_PARALLELISM"] = "false";
\* hf = HFTextVectorizer(model=...); test = hf.embed("This is a test sentence.")
HFCell ==
    /\ pc = "hf_cell"
    /\ env' = [env EXCEPT !["TOKENIZERS_PARALLELISM"] = "false"]
    /\ \E hf \in Vectorizer("HFTextVectorizer", "sentence-transformers/all-mpnet-base-v2",
                            <<>>) :
        LET test == Embed(hf, "This is a test sentence.", FALSE)
        IN /\ ns' = Bind(Bind(ns, "hf", hf), "test", test)
           /\ log' = log \o <<Event("init", "hf", hf.class, <<>>),
                              Event("embed", "hf", test.text, <<test>>)>>
    /\ pc' = "hf_embed_many"
    /\ UNCHANGED <<inflight, server>>

\* the HuggingFace batch cell calling the vectorizer of the cell before it
HFEmbedManyWithAzure ==
    /\ pc = "hf_embed_many"
    /\ LET embeddings == EmbedMany(ns.az_oai, ns.sentences, TRUE)
       IN /\ ns' = Bind(ns, "embeddings", embeddings)
          /\ log' = Append(log, Event("embed_many", "az_oai", "", embeddings))
    /\ pc' = "vertex_cell"
    /\ UNCHANGED <<env, inflight, server>>

\* embeddings = hf.embed_many(sentences): as_buffer left at its default
HFEmbedManyAsFloats ==
    /\ pc = "hf_embed_many"
    /\ LET embeddings == EmbedMany(ns.hf, ns.sentences, FALSE)
       IN /\ ns' = Bind(ns, "embeddings", embeddings)
          /\ log' = Append(log, Event("embed_many", "hf", "", embeddings))
    /\ pc' = "vertex_cell"
    /\ UNCHANGED <<env, inflight, server>>

\* embeddings = hf.embed_many(sentences, as_buffer=True)
HFEmbedMany ==
    /\ pc = "hf_embed_many"
    /\ LET embeddings == EmbedMany(ns.hf, ns.sentences, TRUE)
       IN /\ ns' = Bind(ns, "embeddings", embeddings)
          /\ log' = Append(log, Event("embed_many", "hf", "", embeddings))
    /\ pc' = "vertex_cell"
    /\ UNCHANGED <<env, inflight, server>>

\* vtx = VertexAITextVectorizer(api_config={... or getpass.getpass(...)});
\* test = vtx.embed("This is a test sentence.")
VertexCell ==
    /\ pc = "vertex_cell"
    /\ \E p \in EnvGetOrGetpass("GCP_PROJECT_ID"),
          l \in EnvGetOrGetpass("GCP_LOCATION"),
          g \in EnvGetOrGetpass("GOOGLE_APPLICATION_CREDENTIALS") :
        \E vtx \in Vectorizer("VertexAITextVectorizer", "",
                              [project_id |-> p.value, location |-> l.value,
                               google_application_credentials |-> g.value]) :
            LET test == Embed(vtx, "This is a test sentence.", FALSE)
            IN /\ ns' = Bind(Bind(ns, "vtx", vtx), "test", test)
               /\ log' = log \o p.events \o l.events \o g.events
                             \o <<Event("init", "vtx", vtx.class, <<>>),
                                  Event("embed", "vtx", test.text, <<test>>)>>
    /\ pc' = "cohere_key"
    /\ UNCHANGED <<env, inflight, server>>

\* the Cohere key cell left out: api_key keeps the Azure OpenAI key
CohereKeySkipped ==
    /\ pc = "cohere_key"
    /\ pc' = "cohere_cell"
    /\ UNCHANGED <<env, ns, log, inflight, server>>

\* api_key = os.environ.get("COHERE_API_KEY") or getpass.getpass(...)
CohereKey ==
    /\ pc = "cohere_key"
    /\ \E k \in EnvGetOrGetpass("COHERE_API_KEY") :
        /\ ns' = Bind(ns, "api_key", k.value)
        /\ log' = log \o k.events
    /\ pc' = "cohere_cell"
    /\ UNCHANGED <<env, inflight, server>>

\* co = CohereTextVectorizer(...); test = co.embed(..., input_type='search_query');
\* test = co.embed(..., input_type='search_document')
CohereCell ==
    /\ pc = "cohere_cell"
    /\ \E co \in Vectorizer("CohereTextVectorizer", "embed-english-v3.0",
                            [api_key |-> ns.api_key]) :
        LET query_test == Embed(co, "This is a test sentence.", FALSE)
            test == Embed(co, "This is a test sentence.", FALSE)
        IN /\ ns' = Bind(Bind(ns, "co", co), "test", test)
           /\ log' = log \o <<Event("init", "co", co.class, <<>>),
                              Event("embed", "co", "search_query", <<query_test>>),
                              Event("embed", "co", "search_document", <<test>>)>>
    /\ pc' = "index_create"
    /\ UNCHANGED <<env, inflight, server>>

\* index.create() with overwrite left at its default, False
IndexCreateNoOverwrite ==
    /\ pc = "index_create"
    /\ LET built == FromYaml(SchemaYaml)
           index == Connect(built)
       IN /\ ns' = Bind(ns, "index", index)
          /\ server' = Create(server, index, FALSE)
          /\ log' = log \o <<Event("from_yaml", "index", "", <<>>),
                             Event("connect", "index", "", <<>>),
                             Event("create", "index", State(server, index), <<>>)>>
    /\ pc' = "listall"
    /\ UNCHANGED <<env, inflight>>

\* index = SearchIndex.from_yaml("./schema.yaml"); index.connect(...);
\* index.create(overwrite=True)
IndexCreate ==
    /\ pc = "index_create"
    /\ LET built == FromYaml(SchemaYaml)
           index == Connect(built)
       IN /\ ns' = Bind(ns, "index", index)
          /\ server' = Create(server, index, TRUE)
          /\ log' = log \o <<Event("from_yaml", "index", "", <<>>),
                             Event("connect", "index", "", <<>>),
                             Event("create", "index", State(server, index), <<>>)>>
    /\ pc' = "listall"
    /\ UNCHANGED <<env, inflight>>

\* !rvl index listall
ListAll ==
    /\ pc = "listall"
    /\ log' = Append(log, Event("listall", "rvl", State(server, ns.index), <<>>))
    /\ pc' = "load"
    /\ UNCHANGED <<env, ns, inflight, server>>

\* data = [{"text": t, "embedding": v} for t, v in zip(sentences, embeddings)];
\* index.load(data)
LoadData ==
    /\ pc = "load"
    /\ LET pairs == Zip(ns.sentences, ns.embeddings)
           data == [i \in 1..Len(pairs) |->
                        [text |-> pairs[i][1], embedding |-> pairs[i][2]]]
       IN /\ ns' = Bind(ns, "data", data)
          /\ server' = Load(server, ns.index, data)
          /\ log' = Append(log, Event("load", "index", State(server, ns.index),
                                      [i \in 1..Len(data) |-> data[i].embedding]))
    /\ pc' = "query"
    /\ UNCHANGED <<env, inflight>>

\* the query asking for the schema's field, return_fields=["sentence"]
RunQuerySentenceField ==
    /\ pc = "query"
    /\ LET query_embedding == Embed(ns.hf, "That is a happy cat", FALSE)
           query == VectorQuery(query_embedding, "embedding", <<"sentence">>, 3)
       IN \E dist \in [1..Len(server.hashes) -> 0..MaxDist] :
            LET results == Query(server, ns.index, query, dist)
            IN /\ ns' = Bind(Bind(Bind(ns, "query_embedding", query_embedding),
                                  "query", query), "results", results)
               /\ log' = log \o <<Event("embed", "hf", query_embedding.text,
                                        <<query_embedding>>),
                                  Event("query", "index", State(server, ns.index),
                                        <<query.vector>>)>>
    /\ pc' = "delete"
    /\ UNCHANGED <<env, inflight, server>>

\* query_embedding = hf.embed("That is a happy cat"); query = VectorQuery(...);
\* results = index.query(query)
RunQuery ==
    /\ pc = "query"
    /\ LET query_embedding == Embed(ns.hf, "That is a happy cat", FALSE)
           query == VectorQuery(query_embedding, "embedding", <<"text">>, 3)
       IN \E dist \in [1..Len(server.hashes) -> 0..MaxDist] :
            LET results == Query(server, ns.index, query, dist)
            IN /\ ns' = Bind(Bind(Bind(ns, "query_embedding", query_embedding),
                                  "query", query), "results", results)
               /\ log' = log \o <<Event("embed", "hf", query_embedding.text,
                                        <<query_embedding>>),
                                  Event("query", "index", State(server, ns.index),
                                        <<query.vector>>)>>
    /\ pc' = "delete"
    /\ UNCHANGED <<env, inflight, server>>

\* index.delete()
DeleteIndex ==
    /\ pc = "delete"
    /\ server' = Delete(server, ns.index)
    /\ log' = Append(log, Event("delete", "index", State(server, ns.index), <<>>))
    /\ pc' = "done"
    /\ UNCHANGED <<env, ns, inflight>>

Next ==
    \/ ImportOs
    \/ OpenAIKey
    \/ OpenAICell
    \/ OaiEmbedMany
    \/ OaiAembedManyCall
    \/ OaiAembedManyDone
    \/ AzureSetup
    \/ AzureCell
    \/ AzAembedManyCall
    \/ AzAembedManyDone
    \/ HFCell
    \/ HFEmbedMany
    \/ VertexCell
    \/ CohereKey
    \/ CohereCell
    \/ IndexCreate
    \/ ListAll
    \/ LoadData
    \/ RunQuery
    \/ DeleteIndex

Spec == Init /\ [][Next]_vars

----------------------------------------------------------------------------
(* What the claims speak of *)

\* the variables read with os.environ.get(X) or getpass.getpass(...)
CredentialNames == EnvNames \ {"AZURE_OPENAI_DEPLOYMENT_NAME"}

\* the credentials each vectorizer is built from
Credentials(obj) ==
    CASE obj = "oai" -> {"OPENAI_API_KEY"}
      [] obj = "az_oai" -> {"AZURE_OPENAI_API_KEY", "OPENAI_API_VERSION",
                            "AZURE_OPENAI_ENDPOINT"}
      [] obj = "hf" -> {}
      [] obj = "vtx" -> {"GCP_PROJECT_ID", "GCP_LOCATION",
                         "GOOGLE_APPLICATION_CREDENTIALS"}
      [] obj = "co" -> {"COHERE_API_KEY"}

Vectorizers == {"oai", "az_oai", "hf", "vtx", "co"}

\* the vectorizer a credential is for
Consumer(name) == CHOOSE obj \in Vectorizers : name \in Credentials(obj)

\* the value of the credential in the api_config of its vectorizer
Used(name) ==
    CASE name = "OPENAI_API_KEY" -> ns.oai.api_config.api_key
      [] name = "AZURE_OPENAI_API_KEY" -> ns.az_oai.api_config.api_key
      [] name = "OPENAI_API_VERSION" -> ns.az_oai.api_config.api_version
      [] name = "AZURE_OPENAI_ENDPOINT" -> ns.az_oai.api_config.azure_endpoint
      [] name = "GCP_PROJECT_ID" -> ns.vtx.api_config.project_id
      [] name = "GCP_LOCATION" -> ns.vtx.api_config.location
      [] name = "GOOGLE_APPLICATION_CREDENTIALS" ->
            ns.vtx.api_config.google_application_credentials
      [] name = "COHERE_API_KEY" -> ns.co.api_config.api_key

Events(ops, obj) == {i \in 1..Len(log) : log[i].op \in ops /\ log[i].obj = obj}
Reads(name) == Events({"environ.get"}, name)
Prompts(name) == Events({"getpass"}, name)

EmbedOps == {"embed", "embed_many", "aembed_many"}
IndexOps == {"from_yaml", "connect", "create", "load", "query", "delete"}

\* C1: a credential read from an absent variable is prompted for, once, and
\* the typed value is what its vectorizer gets; a credential whose variable
\* is set to a non-empty value is taken from it and nothing is prompted; a
\* credential is never read or prompted for a second time, and the value
\* used is never anything but the variable's or the typed one.
C1_CredentialFallback ==
    \A name \in CredentialNames :
        /\ Cardinality(Reads(name)) <= 1
        /\ Cardinality(Prompts(name)) <= 1
        /\ \A i \in Prompts(name) : i - 1 \in Reads(name)
        /\ Reads(name) # {} =>
            /\ env[name] = None => Prompts(name) # {}
            /\ Truthy(env[name]) => Prompts(name) = {}
            /\ Consumer(name) \in DOMAIN ns =>
                /\ Truthy(env[name]) => Used(name) = env[name]
                /\ env[name] = None => \A i \in Prompts(name) : Used(name) = log[i].val

\* a key that was absent and typed in, next to a key taken from the environment
C1_Witness ==
    /\ pc = "done"
    /\ env["OPENAI_API_KEY"] = None
    /\ Prompts("OPENAI_API_KEY") # {}
    /\ ns.oai.api_config.api_key = "typed"
    /\ Prompts("COHERE_API_KEY") = {}
    /\ ns.co.api_config.api_key = Exported("COHERE_API_KEY")

\* C2: at most one call is in flight, a call is in flight only while its
\* cell awaits it, and when the next cell starts the awaited result is what
\* `embeddings` holds.
C2_OneCallAtATime ==
    /\ Cardinality(inflight) <= 1
    /\ inflight # {} => pc \in {"oai_aembed_many_await", "az_aembed_many_await"}
    /\ pc = "oai_aembed_many_await" => inflight = {[obj |-> "oai", texts |-> ns.sentences]}
    /\ pc = "az_aembed_many_await" => inflight = {[obj |-> "az_oai", texts |-> ns.sentences]}
    /\ pc = "azure_setup" =>
        /\ log[Len(log) - 1].op = "aembed_many" /\ log[Len(log) - 1].obj = "oai"
        /\ ns.embeddings = log[Len(log) - 1].vecs
    /\ pc = "hf_cell" =>
        /\ log[Len(log)].op = "aembed_many" /\ log[Len(log)].obj = "az_oai"
        /\ ns.embeddings = log[Len(log)].vecs

\* the Azure OpenAI coroutine in flight, the OpenAI one completed before it
C2_Witness ==
    /\ pc = "az_aembed_many_await"
    /\ Cardinality(inflight) = 1
    /\ Events({"aembed_many"}, "oai") # {}

\* C3: a vectorizer is built after all its credentials were obtained, embeds
\* only after it was built, and every vector handed to index.load or
\* index.query came out of an earlier embed call.
C3_FlowOrder ==
    \A i \in 1..Len(log) :
        /\ log[i].op = "init" =>
            \A name \in Credentials(log[i].obj) : \E j \in Reads(name) : j < i
        /\ log[i].op \in EmbedOps =>
            \E j \in Events({"init"}, log[i].obj) : j < i
        /\ (log[i].op \in {"load", "query"} /\ log[i].obj = "index") =>
            \A v \in Range(log[i].vecs) :
                \E j \in 1..(i - 1) : log[j].op \in EmbedOps /\ v \in Range(log[j].vecs)

\* the whole notebook has run: every provider embedded, the index was loaded
\* and queried
C3_Witness ==
    /\ pc = "done"
    /\ \A obj \in Vectorizers : Events(EmbedOps, obj) # {}
    /\ Events({"load"}, "index") # {}
    /\ Events({"query"}, "index") # {}

\* the length the schema declares for its vector field
SchemaDims(schema) ==
    LET f == CHOOSE i \in 1..Len(schema.fields) : schema.fields[i].type = "vector"
    IN schema.fields[f].dims

\* the hashes the server holds under the index's key prefix
Stored(index) == SelectSeq(server.hashes, LAMBDA h : h.prefix = index.schema.prefix)

\* C4: every vector a provider returns has that provider's length, and the
\* vectors that reach index.load and index.query, and the ones stored, are
\* HuggingFace vectors of the length the schema declares, never of 1536 or
\* 1024.
C4_Dimensions ==
    /\ \A i \in 1..Len(log) : log[i].op \in EmbedOps =>
        \A v \in Range(log[i].vecs) :
            /\ log[i].obj = "oai" => v.dims = OPENAI_DIMS
            /\ log[i].obj = "az_oai" => v.dims = AZURE_DIMS
            /\ log[i].obj = "co" => v.dims = COHERE_DIMS
            /\ log[i].obj = "hf" => v.dims = HF_DIMS
    /\ \A i \in Events({"load", "query"}, "index") :
        \A v \in Range(log[i].vecs) :
            /\ v.provider = "HFTextVectorizer"
            /\ v.dims = SchemaDims(ns.index.schema)
            /\ v.dims \notin {OPENAI_DIMS, COHERE_DIMS}
    /\ pc \in {"listall", "load", "query", "delete"} =>
        \A h \in Range(Stored(ns.index)) :
            h.fields.embedding.dims = SchemaDims(ns.index.schema)

\* the index was loaded and queried, after OpenAI and Cohere vectors of other
\* lengths were made
C4_Witness ==
    /\ pc = "delete"
    /\ Len(Stored(ns.index)) = 3
    /\ \E i \in Events({"query"}, "index") : log[i].vecs[1].dims = SCHEMA_DIMS
    /\ \E i \in Events(EmbedOps, "oai") : log[i].vecs[1].dims = OPENAI_DIMS
    /\ \E i \in Events(EmbedOps, "co") : log[i].vecs[1].dims = COHERE_DIMS

\* C5: a batch call returns one embedding per sentence, in the order of the
\* sentences, three for the notebook's list; the records built for the load
\* are as many, and each pairs a sentence with the embedding of that sentence.
C5_BatchPairs ==
    /\ \A i \in 1..Len(log) : log[i].op \in {"embed_many", "aembed_many"} =>
        /\ Len(log[i].vecs) = Len(ns.sentences)
        /\ Len(log[i].vecs) = 3
        /\ \A k \in 1..Len(log[i].vecs) : log[i].vecs[k].text = ns.sentences[k]
    /\ "data" \in DOMAIN ns =>
        /\ Len(ns.data) = Len(ns.sentences)
        /\ Len(ns.data) = 3
        /\ \A k \in 1..Len(ns.data) :
            /\ ns.data[k].text = ns.sentences[k]
            /\ ns.data[k].embedding.text = ns.sentences[k]
        /\ \A k \in 1..Len(ns.sentences) : \E r \in Range(ns.data) : r.text = ns.sentences[k]

\* the three records are built and stored
C5_Witness ==
    /\ pc = "query"
    /\ Len(ns.data) = 3
    /\ Len(Stored(ns.index)) = 3
    /\ ns.data[3].embedding.text = "Today is a sunny day"

\* C6: the query returns at most 3 documents, each with `text` and
\* `vector_distance`, in the order of non-decreasing distance, and each is
\* one of the records loaded.
C6_NearestNeighbours ==
    "results" \in DOMAIN ns =>
        /\ Len(ns.results) <= 3
        /\ \A i \in 1..Len(ns.results) : {"text", "vector_distance"} \subseteq DOMAIN ns.results[i]
        /\ \A i \in 1..Len(ns.results) : \A j \in 1..Len(ns.results) :
            i < j => ns.results[i].vector_distance <= ns.results[j].vector_distance
        /\ \A i \in 1..Len(ns.results) : \E r \in Range(ns.data) : r.text = ns.results[i].text

\* three documents come back and the nearest is not the first one loaded
C6_Witness ==
    /\ pc = "delete"
    /\ Len(ns.results) = 3
    /\ ns.results[1].vector_distance < ns.results[3].vector_distance
    /\ ns.results[1].text # ns.data[1].text

\* C7: the sentences loaded into the index are the three the "Creating Text
\* Embeddings" section announces.
C7_AnnouncedSentences ==
    "data" \in DOMAIN ns => {r.text : r \in Range(ns.data)} = Range(Announced)

\* where an index operation stands in the lifecycle
Rank(op) ==
    CASE op = "from_yaml" -> 1
      [] op = "connect" -> 2
      [] op = "create" -> 3
      [] op = "load" -> 4
      [] op = "query" -> 5
      [] op = "delete" -> 6

\* C8: the index operations come in the order build, connect, create, load,
\* query, delete, each once; the index is there and empty once created; load,
\* query and delete find the index on the server; after delete it is gone and
\* nothing follows.
C8_IndexLifecycle ==
    LET ops == {i \in 1..Len(log) : log[i].op \in IndexOps /\ log[i].obj = "index"}
    IN /\ \A i \in ops : \A j \in ops : i < j => Rank(log[i].op) < Rank(log[j].op)
       /\ \A i \in ops : log[i].op \in {"load", "query", "delete"} => log[i].val = "exists"
       /\ pc \in {"listall", "load"} =>
            /\ Exists(server, ns.index)
            /\ Stored(ns.index) = <<>>
       /\ pc = "query" => Exists(server, ns.index)
       /\ \A i \in ops : log[i].op = "delete" =>
            /\ i = Len(log)
            /\ "vectorizers" \notin server.indices
            /\ pc = "done"

\* the whole lifecycle has run where an earlier index of the name was there
C8_Witness ==
    /\ pc = "done"
    /\ \E i \in Events({"create"}, "index") : log[i].val = "exists"
    /\ Events({"delete"}, "index") # {}
    /\ server.indices = {}

\* C9: every embedding handed to index.load, and every one stored, is a bytes
\* buffer: at the load `embeddings` holds what the last batch call before it,
\* the HuggingFace one, returned, not the float lists of the earlier calls.
C9_LoadsBuffers ==
    /\ \A i \in Events({"load"}, "index") : \A v \in Range(log[i].vecs) : v.fmt = "bytes"
    /\ pc \in {"load", "query"} =>
        LET batches == {i \in 1..Len(log) : log[i].op \in {"embed_many", "aembed_many"}}
            last == CHOOSE i \in batches : \A j \in batches : j <= i
        IN /\ log[last].obj = "hf"
           /\ ns.embeddings = log[last].vecs
           /\ \A i \in batches \ {last} : ns.embeddings # log[i].vecs
    /\ pc \in {"listall", "load", "query", "delete"} =>
        \A h \in Range(Stored(ns.index)) : h.fields.embedding.fmt = "bytes"

\* buffers are stored after the OpenAI call had bound float lists to the name
C9_Witness ==
    /\ pc = "query"
    /\ Len(Stored(ns.index)) = 3
    /\ \A h \in Range(Stored(ns.index)) : h.fields.embedding.fmt = "bytes"
    /\ \E i \in Events({"embed_many"}, "oai") : log[i].vecs[1].fmt = "floats"

\* C10: the records loaded have exactly the field names the schema declares,
\* and the query returns only fields the schema declares.
C10_SchemaFields ==
    /\ "data" \in DOMAIN ns =>
        \A r \in Range(ns.data) : DOMAIN r = SchemaFieldNames(ns.index.schema)
    /\ "query" \in DOMAIN ns =>
        Range(ns.query.return_fields) \subseteq SchemaFieldNames(ns.index.schema)

\* C11: the Azure deployment name is never prompted for: with
\* AZURE_OPENAI_DEPLOYMENT_NAME absent the model given to
\* AzureOpenAITextVectorizer is "text-embedding-ada-002", and with the
\* variable set, to the empty string too, it is the variable's value.
C11_DeploymentNameDefault ==
    /\ Prompts("AZURE_OPENAI_DEPLOYMENT_NAME") = {}
    /\ Cardinality(Reads("AZURE_OPENAI_DEPLOYMENT_NAME")) <= 1
    /\ "az_oai" \in DOMAIN ns =>
        /\ Reads("AZURE_OPENAI_DEPLOYMENT_NAME") # {}
        /\ ns.az_oai.model = ns.deployment_name
        /\ env["AZURE_OPENAI_DEPLOYMENT_NAME"] = None =>
            ns.az_oai.model = "text-embedding-ada-002"
        /\ env["AZURE_OPENAI_DEPLOYMENT_NAME"] # None =>
            ns.az_oai.model = env["AZURE_OPENAI_DEPLOYMENT_NAME"]

\* the variable set to the empty string: the vectorizer is built with the
\* empty model name and nothing was prompted
C11_Witness ==
    /\ pc = "az_aembed_many"
    /\ env["AZURE_OPENAI_DEPLOYMENT_NAME"] = ""
    /\ ns.az_oai.model = ""
    /\ Prompts("AZURE_OPENAI_DEPLOYMENT_NAME") = {}
    /\ \A name \in Credentials("az_oai") : Prompts(name) = {}

\* the variable absent: the vectorizer is built with the default model name
C11_WitnessDefault ==
    /\ pc = "az_aembed_many"
    /\ env["AZURE_OPENAI_DEPLOYMENT_NAME"] = None
    /\ ns.az_oai.model = "text-embedding-ada-002"

====
